---- MODULE Spec2Model ----
(***************************************************************************)
(* Versioned capability resolution of model_compression_toolkit            *)
(* (get_target_platform_capabilities, get_tpc_model and its legacy alias)  *)
(* and the network-deployment test harness that consumes it               *)
(* (NetworkDeploymentBaseTest).                                            *)
(***************************************************************************)
EXTENDS Integers, Sequences, FiniteSets, TLC

VARIABLES
    registry,     \* device_type -> (canonical version string -> factory name)
    calls,        \* the resolve calls made so far, each with what the caller got
    FOUND_TORCH,  \* verify_packages.FOUND_TORCH, fixed at import
    shim,         \* the last call of get_tpc_model / generate_pytorch_tpc
    ctor,         \* the arguments the test object was constructed with
    self,         \* the NetworkDeploymentBaseTest object
    pc,           \* where run_test is
    folderExists, \* whether save_folder is on disk
    files,        \* the files in save_folder
    localTpc,     \* run_test's local tpc
    quantized,    \* pytorch_post_training_quantization has returned
    exported,     \* pytorch_export_model has returned
    javaCheck,    \* the result of `java -version`
    convCheck,    \* the result of `imxconv-pt --version`
    converter,    \* the result of the imxconv-pt conversion command
    artifactSeen, \* what os.path.exists(save_folder + '/qmodel.pbtxt') returned
    runResult,    \* how run_test ended: "ok" or the exception that left it
    environPath,  \* os.environ's PATH entry
    gens          \* the generators representative_data_gen has returned

resolverVars == <<registry, calls>>
shimVars == <<FOUND_TORCH, shim>>
runVars == <<pc, folderExists, files, localTpc, quantized, exported, javaCheck, convCheck,
             converter, artifactSeen, runResult, environPath>>
vars == <<registry, calls, FOUND_TORCH, shim, ctor, self, pc, folderExists, files, localTpc,
          quantized, exported, javaCheck, convCheck, converter, artifactSeen,
          runResult, environPath, gens>>

(***************************************************************************)
(* Bounds.                                                                 *)
(***************************************************************************)
MaxCalls == 3

(***************************************************************************)
(* Python values a caller may pass as tpc_version.  A float is kept as its *)
(* integer part and one fractional digit (1.0 is i = 1, f = 0).            *)
(***************************************************************************)
StrV(x) == [t |-> "str", s |-> x, i |-> 0, f |-> 0]
FloatV(a, b) == [t |-> "float", s |-> "", i |-> a, f |-> b]
IntV(a) == [t |-> "int", s |-> "", i |-> a, f |-> 0]
NoneV == [t |-> "none", s |-> "", i |-> 0, f |-> 0]
\* The argument left out at the call site: the parameter's default applies.
Omitted == [t |-> "omitted", s |-> "", i |-> 0, f |-> 0]

IMX500_TP_MODEL == "imx500"
DefaultTpcVersion == "1.0"
OmittedDevice == "<omitted>"

VersionInputs ==
    { FloatV(1, 0), StrV("1.0"), FloatV(4, 0), StrV("4.0"),
      IntV(1), StrV("1"), NoneV, StrV("None"), Omitted }

DeviceInputs == { "imx500", "tflite", OmittedDevice }

(***************************************************************************)
(* str(): the canonical string of a version value.                         *)
(***************************************************************************)
DigitStr == <<"0", "1", "2", "3", "4", "5", "6", "7", "8", "9">>

RECURSIVE IntStr(_)
IntStr(n) ==
    IF n < 10 THEN DigitStr[n + 1]
    ELSE IntStr(n \div 10) \o DigitStr[(n % 10) + 1]

\* A plausible slip: a float printed without its fractional part.
str_short_float(v) ==
    CASE v.t = "str" -> v.s
      [] v.t = "float" -> IF v.f = 0 THEN IntStr(v.i)
                          ELSE IntStr(v.i) \o "." \o IntStr(v.f)
      [] v.t = "int" -> IntStr(v.i)
      [] OTHER -> "None"

str(v) ==
    CASE v.t = "str" -> v.s
      [] v.t = "float" -> IntStr(v.i) \o "." \o IntStr(v.f)
      [] v.t = "int" -> IntStr(v.i)
      [] OTHER -> "None"

(***************************************************************************)
(* The Registry and the per-device dispatchers (generate_tpc_func and the  *)
(* function it returns).                                                   *)
(***************************************************************************)
NoneTpc == [name |-> "None", device |-> "", version |-> ""]

\* What the factory registered under (device, version) builds.
FactoryOutput(reg, device, version) ==
    [name |-> reg[device][version], device |-> device, version |-> version]

RegistryA == [d \in {"imx500"} |-> [v \in {"1.0"} |-> "factoryX"]]

RegistryB ==
    [d \in {"imx500", "tflite"} |->
        IF d = "imx500"
        THEN [v \in {"1.0", "4.0"} |->
                 IF v = "1.0" THEN "imx500_v1" ELSE "imx500_v4"]
        ELSE [v \in {"1.0"} |-> "tflite_v1"]]

Registries == { RegistryA, RegistryB }

\* generate_tpc_func(device_type): the dispatcher of the device, or the error.
generate_tpc_func(reg, device_type) ==
    IF device_type \in DOMAIN reg
    THEN [raised |-> "", device |-> device_type]
    ELSE [raised |-> "UnknownDeviceType", device |-> ""]

\* tpc_func(tpc_version): exact match of the version string, or the error.
tpc_func(reg, device, tpc_version) ==
    IF tpc_version \in DOMAIN reg[device]
    THEN [raised |-> "", tpc |-> FactoryOutput(reg, device, tpc_version)]
    ELSE [raised |-> "UnknownVersion", tpc |-> NoneTpc]

(***************************************************************************)
(* get_target_platform_capabilities: what the caller gets (kind, tpc), the *)
(* version strings handed to a dispatcher, and the Registry afterwards.    *)
(***************************************************************************)
\* Slip: an unknown version falls back to the default version.
get_tpc_fallback_version(reg, tpc_version, device_type) ==
    LET f == generate_tpc_func(reg, device_type) IN
    IF f.raised # ""
    THEN [kind |-> f.raised, tpc |-> NoneTpc, dispatched |-> <<>>, registry |-> reg]
    ELSE LET v == str(tpc_version)
             r == tpc_func(reg, f.device, v)
             d == tpc_func(reg, f.device, DefaultTpcVersion)
         IN IF r.raised = ""
            THEN [kind |-> "ok", tpc |-> r.tpc, dispatched |-> <<v>>, registry |-> reg]
            ELSE [kind |-> IF d.raised = "" THEN "ok" ELSE d.raised, tpc |-> d.tpc,
                  dispatched |-> <<v, DefaultTpcVersion>>, registry |-> reg]

\* Slip: an unknown device is caught and the default device is used.
get_tpc_fallback_device(reg, tpc_version, device_type) ==
    LET f0 == generate_tpc_func(reg, device_type)
        f == IF f0.raised # "" THEN generate_tpc_func(reg, IMX500_TP_MODEL) ELSE f0
    IN
    IF f.raised # ""
    THEN [kind |-> f.raised, tpc |-> NoneTpc, dispatched |-> <<>>, registry |-> reg]
    ELSE LET v == str(tpc_version)
             r == tpc_func(reg, f.device, v)
         IN [kind |-> IF r.raised = "" THEN "ok" ELSE r.raised, tpc |-> r.tpc,
             dispatched |-> <<v>>, registry |-> reg]

\* Slip: the version is handed to the dispatcher as passed, not as str(version).
get_tpc_no_str(reg, tpc_version, device_type) ==
    LET f == generate_tpc_func(reg, device_type) IN
    IF f.raised # ""
    THEN [kind |-> f.raised, tpc |-> NoneTpc, dispatched |-> <<>>, registry |-> reg]
    ELSE LET v == IF tpc_version.t = "str" THEN tpc_version.s ELSE "<not a str>"
             r == tpc_func(reg, f.device, v)
         IN [kind |-> IF r.raised = "" THEN "ok" ELSE r.raised, tpc |-> r.tpc,
             dispatched |-> <<v>>, registry |-> reg]

\* Slip: the factory is taken out of the Registry when it is used.
get_tpc_pop(reg, tpc_version, device_type) ==
    LET f == generate_tpc_func(reg, device_type) IN
    IF f.raised # ""
    THEN [kind |-> f.raised, tpc |-> NoneTpc, dispatched |-> <<>>, registry |-> reg]
    ELSE LET v == str(tpc_version)
             r == tpc_func(reg, f.device, v)
         IN [kind |-> IF r.raised = "" THEN "ok" ELSE r.raised, tpc |-> r.tpc,
             dispatched |-> <<v>>,
             registry |->
                 IF r.raised # "" THEN reg
                 ELSE [reg EXCEPT ![f.device] =
                          [x \in (DOMAIN reg[f.device]) \ {v} |-> reg[f.device][x]]]]

get_target_platform_capabilities(reg, tpc_version, device_type) ==
    LET f == generate_tpc_func(reg, device_type) IN
    IF f.raised # ""
    THEN [kind |-> f.raised, tpc |-> NoneTpc, dispatched |-> <<>>, registry |-> reg]
    ELSE LET v == str(tpc_version)
             r == tpc_func(reg, f.device, v)
         IN [kind |-> IF r.raised = "" THEN "ok" ELSE r.raised, tpc |-> r.tpc,
             dispatched |-> <<v>>, registry |-> reg]

\* The parameters' defaults: tpc_version = '1.0', device_type = IMX500_TP_MODEL.
BindVersion(v) == IF v = Omitted THEN StrV(DefaultTpcVersion) ELSE v
BindDevice(d) == IF d = OmittedDevice THEN IMX500_TP_MODEL ELSE d

(***************************************************************************)
(* get_tpc_model and its alias.                                            *)
(***************************************************************************)
NameInputs == { StrV(""), NoneV, StrV("qnnpack"), StrV("imx500"), StrV("default") }

TpcInputs ==
    { FactoryOutput(RegistryB, "imx500", "1.0"), FactoryOutput(RegistryB, "imx500", "4.0"),
      FactoryOutput(RegistryB, "tflite", "1.0"), FactoryOutput(RegistryA, "imx500", "1.0"),
      [name |-> "qnnpack_v1", device |-> "qnnpack", version |-> "1.0"], NoneTpc }

\* Slip: a falsy name yields no descriptor.
get_tpc_model_needs_name(name, tpc) ==
    IF name.t = "none" \/ name = StrV("") THEN NoneTpc ELSE tpc

get_tpc_model(name, tpc) == tpc

NoShim == [fn |-> "", name |-> NoneV, tpc |-> NoneTpc, raised |-> "", result |-> NoneTpc]

(***************************************************************************)
(* NetworkDeploymentBaseTest: construction.                                *)
(***************************************************************************)
\* __init__: input_shape becomes (batch_size,) + input_shape.
NetworkDeploymentBaseTest(tpc_version, device_type, input_shape, batch_size, num_calibration_iter, num_of_inputs) ==
    [tpc_version |-> tpc_version, device_type |-> device_type,
     input_shape |-> <<batch_size>> \o input_shape,
     num_calibration_iter |-> num_calibration_iter, num_of_inputs |-> num_of_inputs]

\* The defaults of __init__'s parameters.
DefaultInputShape == <<3, 224, 224>>
CtorArgs(tpc_version, device_type, input_shape, batch_size, num_calibration_iter, num_of_inputs) ==
    [tpc_version |-> tpc_version, device_type |-> device_type, input_shape |-> input_shape,
     batch_size |-> batch_size, num_calibration_iter |-> num_calibration_iter,
     num_of_inputs |-> num_of_inputs]
DefaultArgs(tpc_version, device_type) ==
    CtorArgs(tpc_version, device_type, DefaultInputShape, 1, 1, 1)
Construct(a) ==
    NetworkDeploymentBaseTest(a.tpc_version, a.device_type, a.input_shape, a.batch_size,
                              a.num_calibration_iter, a.num_of_inputs)

(***************************************************************************)
(* NetworkDeploymentBaseTest: the representative data generator.           *)
(***************************************************************************)
get_input_shapes(s) == [k \in 1..s.num_of_inputs |-> s.input_shape]

\* One batch: an array per input; only the shape of np.random.randn(*in_shape) is kept.
generate_inputs(s) == get_input_shapes(s)

\* Calling representative_data_gen returns a new generator, not yet started.
representative_data_gen(s) == [i |-> 0, done |-> FALSE, yielded |-> <<>>]

\* next() on a generator: the loop body of `for _ in range(num_calibration_iter)`.
gen_next(s, g) ==
    IF g.i < s.num_calibration_iter
    THEN [g EXCEPT !.i = @ + 1, !.yielded = Append(@, generate_inputs(s))]
    ELSE [g EXCEPT !.done = TRUE]

\* Slip: run_mct hands over one generator object, which every consumer shares.
run_mct_shared_generator(s, made) ==
    IF made = <<>> THEN representative_data_gen(s)
    ELSE [made[Len(made)] EXCEPT !.yielded = <<>>]

\* run_mct hands the bound method to both collaborators: what a collaborator
\* iterates when it calls its argument, given the generators made before.
run_mct_data_gen(s, made) == representative_data_gen(s)

(***************************************************************************)
(* NetworkDeploymentBaseTest: check_libs and run_test.                     *)
(***************************************************************************)
\* os.makedirs(save_folder, exist_ok=True): the folder is there afterwards.
makedirs(exists) == TRUE

\* Slip: only a negative return code counts as a failed check.
check_failed_negative(result) == result.returncode < 0

\* check_libs: `if result.returncode != 0: raise SystemExit(...)`.
check_failed(result) == result.returncode # 0

\* subprocess.run(cmd, check=True) raises CalledProcessError on a non-zero exit.
called_process_error(result) == result.returncode # 0

\* Slip: the folder's contents are removed and the folder is left.
rmtree_contents_only(exists) == exists

\* shutil.rmtree(save_folder): the folder is gone afterwards.
rmtree(exists) == FALSE

\* os.environ's PATH: its directories, or not in the environment at all.
NoPath == [set |-> FALSE, dirs |-> <<>>]
SystemPath == [set |-> TRUE, dirs |-> <<"/usr/bin">>]
\* os.path.dirname(sys.executable)
EnvBinPath == "<env_bin_path>"

\* os.environ["PATH"] = f"{env_bin_path}:{os.environ['PATH']}": reading a PATH
\* that is not in the environment raises KeyError.
prepend_env_bin_path(path) ==
    IF path.set
    THEN [raised |-> "", path |-> [path EXCEPT !.dirs = <<EnvBinPath>> \o @]]
    ELSE [raised |-> "KeyError", path |-> path]

\* The result of a subprocess that has not been started.
NotRun == [ran |-> FALSE, returncode |-> 0]
Completed(rc) == [ran |-> TRUE, returncode |-> rc]
ReturnCodes == {0, 1}

ONNX == "qmodel.onnx"
PBTXT == "qmodel.pbtxt"

RunStart ==
    /\ pc = "makedirs"
    /\ localTpc = NoneTpc
    /\ quantized = FALSE /\ exported = FALSE
    /\ javaCheck = NotRun /\ convCheck = NotRun /\ converter = NotRun
    /\ artifactSeen = "unchecked"
    /\ runResult = "running"

\* No test object in play: the state of the harness in the other specifications.
IdleTest ==
    /\ ctor = DefaultArgs(StrV("1.0"), IMX500_TP_MODEL)
    /\ self = Construct(ctor)
    /\ folderExists = FALSE /\ files = {}
    /\ environPath = SystemPath
    /\ RunStart
    /\ gens = <<>>

(***************************************************************************)
(* Initial states.                                                         *)
(***************************************************************************)
InitResolver ==
    /\ registry \in Registries
    /\ calls = <<>>

InitShim ==
    /\ registry = RegistryB /\ calls = <<>>
    /\ FOUND_TORCH \in BOOLEAN
    /\ shim = NoShim
    /\ IdleTest

Init ==
    /\ InitResolver
    /\ FOUND_TORCH = TRUE
    /\ shim = NoShim
    /\ IdleTest

(***************************************************************************)
(* Actions of the resolver.                                                *)
(***************************************************************************)
Resolve(v, d) ==
    /\ Len(calls) < MaxCalls
    /\ LET r == get_target_platform_capabilities(registry, BindVersion(v), BindDevice(d))
       IN /\ calls' = Append(calls,
                 [tpc_version |-> v, device_type |-> d, before |-> registry,
                  kind |-> r.kind, tpc |-> r.tpc, dispatched |-> r.dispatched])
          /\ registry' = r.registry
    /\ UNCHANGED <<shimVars, ctor, self, runVars, gens>>

Next == \E v \in VersionInputs, d \in DeviceInputs : Resolve(v, d)

Spec == Init /\ [][Next]_vars

(***************************************************************************)
(* Actions of the pass-through.                                            *)
(***************************************************************************)
CallGetTpcModel(name, tpc) ==
    /\ shim' = [fn |-> "get_tpc_model", name |-> name, tpc |-> tpc, raised |-> "",
                result |-> get_tpc_model(name, tpc)]
    /\ UNCHANGED <<FOUND_TORCH, registry, calls, ctor, self, runVars, gens>>

\* qnnpack_tpc.latest binds the name only when torch was found.
CallGeneratePytorchTpc(name, tpc) ==
    /\ shim' = IF FOUND_TORCH
               THEN [fn |-> "generate_pytorch_tpc", name |-> name, tpc |-> tpc,
                     raised |-> "", result |-> get_tpc_model(name, tpc)]
               ELSE [fn |-> "generate_pytorch_tpc", name |-> name, tpc |-> tpc,
                     raised |-> "ImportError", result |-> NoneTpc]
    /\ UNCHANGED <<FOUND_TORCH, registry, calls, ctor, self, runVars, gens>>

NextShim ==
    \E name \in NameInputs, tpc \in TpcInputs :
        \/ CallGetTpcModel(name, tpc)
        \/ CallGeneratePytorchTpc(name, tpc)

SpecShim == InitShim /\ [][NextShim]_vars

(***************************************************************************)
(* run_test, statement by statement.                                       *)
(***************************************************************************)
TestVersions == { StrV("1.0"), StrV("4.0"), StrV("9.9"), NoneV }
TestDevices == { "imx500", "qnnpack" }

InitRun ==
    /\ InitResolver
    /\ FOUND_TORCH = TRUE /\ shim = NoShim
    /\ ctor \in { DefaultArgs(v, d) : v \in TestVersions, d \in TestDevices }
    /\ self = Construct(ctor)
    /\ folderExists \in BOOLEAN
    /\ files \in (IF folderExists THEN SUBSET {ONNX, PBTXT} ELSE {{}})
    /\ environPath \in {SystemPath, NoPath}
    /\ RunStart
    /\ gens = <<>>

Idle == UNCHANGED <<calls, shimVars, ctor, self, gens>>

\* line 78
Makedirs ==
    /\ pc = "makedirs"
    /\ folderExists' = makedirs(folderExists)
    /\ pc' = "get_tpc"
    /\ UNCHANGED <<registry, files, localTpc, quantized, exported, javaCheck, convCheck,
                   converter, artifactSeen, runResult>>
    /\ UNCHANGED environPath
    /\ Idle

\* line 81: get_tpc, whose error leaves run_test
GetTpc ==
    /\ pc = "get_tpc"
    /\ LET r == get_target_platform_capabilities(registry, self.tpc_version, self.device_type)
       IN /\ registry' = r.registry
          /\ localTpc' = r.tpc
          /\ pc' = IF r.kind = "ok" THEN "quantize" ELSE "done"
          /\ runResult' = IF r.kind = "ok" THEN runResult ELSE r.kind
    /\ UNCHANGED <<folderExists, files, quantized, exported, javaCheck, convCheck,
                   converter, artifactSeen>>
    /\ UNCHANGED environPath
    /\ Idle

\* run_mct, lines 58-60: the quantization returns or raises
Quantize ==
    /\ pc = "quantize"
    /\ \E ok \in BOOLEAN :
          /\ quantized' = ok
          /\ pc' = IF ok THEN "export" ELSE "done"
          /\ runResult' = IF ok THEN runResult ELSE "QuantizationError"
    /\ UNCHANGED <<registry, folderExists, files, localTpc, exported, javaCheck, convCheck,
                   converter, artifactSeen>>
    /\ UNCHANGED environPath
    /\ Idle

\* run_mct, lines 63-64: the export writes qmodel.onnx or raises
Export ==
    /\ pc = "export"
    /\ \E ok \in BOOLEAN :
          /\ exported' = ok
          /\ files' = IF ok THEN files \cup {ONNX} ELSE files
          /\ pc' = IF ok THEN "check_java" ELSE "done"
          /\ runResult' = IF ok THEN runResult ELSE "ExportError"
    /\ UNCHANGED <<registry, folderExists, localTpc, quantized, javaCheck, convCheck,
                   converter, artifactSeen>>
    /\ UNCHANGED environPath
    /\ Idle

\* check_libs, lines 68-70
CheckJava ==
    /\ pc = "check_java"
    /\ \E rc \in ReturnCodes :
          /\ javaCheck' = Completed(rc)
          /\ pc' = IF check_failed(Completed(rc)) THEN "done" ELSE "check_converter"
          /\ runResult' = IF check_failed(Completed(rc)) THEN "SystemExit" ELSE runResult
    /\ UNCHANGED <<registry, folderExists, files, localTpc, quantized, exported, convCheck,
                   converter, artifactSeen>>
    /\ UNCHANGED environPath
    /\ Idle

\* check_libs, lines 73-75
CheckConverter ==
    /\ pc = "check_converter"
    /\ \E rc \in ReturnCodes :
          /\ convCheck' = Completed(rc)
          /\ pc' = IF check_failed(Completed(rc)) THEN "done" ELSE "set_path"
          /\ runResult' = IF check_failed(Completed(rc)) THEN "SystemExit" ELSE runResult
    /\ UNCHANGED <<registry, folderExists, files, localTpc, quantized, exported, javaCheck,
                   converter, artifactSeen>>
    /\ UNCHANGED environPath
    /\ Idle

\* lines 68 and 73: subprocess.run raises when the executable is not on PATH
CheckLibsNotFound ==
    /\ pc \in {"check_java", "check_converter"}
    /\ pc' = "done"
    /\ runResult' = "FileNotFoundError"
    /\ UNCHANGED <<registry, folderExists, files, localTpc, quantized, exported, javaCheck,
                   convCheck, converter, artifactSeen>>
    /\ UNCHANGED environPath
    /\ Idle

\* lines 88-92: the command is built and the interpreter's directory is put
\* first on PATH; without a PATH in the environment line 91 raises KeyError
PrependPath ==
    /\ pc = "set_path"
    /\ LET r == prepend_env_bin_path(environPath)
       IN /\ environPath' = r.path
          /\ pc' = IF r.raised = "" THEN "converter" ELSE "done"
          /\ runResult' = IF r.raised = "" THEN runResult ELSE r.raised
    /\ UNCHANGED <<registry, folderExists, files, localTpc, quantized, exported, javaCheck,
                   convCheck, converter, artifactSeen>>
    /\ Idle

\* line 94: the converter exits with rc, having written the artifact or not
RunConverter ==
    /\ pc = "converter"
    /\ \E rc \in ReturnCodes, wrote \in BOOLEAN :
          /\ converter' = Completed(rc)
          /\ files' = IF wrote THEN files \cup {PBTXT} ELSE files \ {PBTXT}
          /\ pc' = IF called_process_error(Completed(rc)) THEN "done" ELSE "exists"
          /\ runResult' = IF called_process_error(Completed(rc))
                          THEN "CalledProcessError" ELSE runResult
    /\ UNCHANGED <<registry, folderExists, localTpc, quantized, exported, javaCheck,
                   convCheck, artifactSeen>>
    /\ UNCHANGED environPath
    /\ Idle

\* line 96: the value of os.path.exists is computed and dropped
PathExists ==
    /\ pc = "exists"
    /\ artifactSeen' = IF PBTXT \in files THEN "present" ELSE "missing"
    /\ pc' = "rmtree"
    /\ UNCHANGED <<registry, folderExists, files, localTpc, quantized, exported, javaCheck,
                   convCheck, converter, runResult>>
    /\ UNCHANGED environPath
    /\ Idle

\* line 99, then run_test returns
Rmtree ==
    /\ pc = "rmtree"
    /\ folderExists' = rmtree(folderExists)
    /\ files' = IF rmtree(folderExists) THEN files ELSE {}
    /\ pc' = "done"
    /\ runResult' = "ok"
    /\ UNCHANGED <<registry, localTpc, quantized, exported, javaCheck, convCheck,
                   converter, artifactSeen>>
    /\ UNCHANGED environPath
    /\ Idle

NextRun ==
    \/ Makedirs
    \/ GetTpc
    \/ Quantize
    \/ Export
    \/ CheckJava
    \/ CheckConverter
    \/ CheckLibsNotFound
    \/ PrependPath
    \/ RunConverter
    \/ PathExists
    \/ Rmtree

SpecRun == InitRun /\ [][NextRun]_vars

(***************************************************************************)
(* The collaborators of run_mct consuming the representative data.         *)
(***************************************************************************)
MaxGens == 2
MaxIter == 2
MaxInputs == 2
MaxBatch == 2

InputShapes == { DefaultInputShape, <<3, 32, 32>> }

InitGen ==
    /\ registry = RegistryB /\ calls = <<>>
    /\ FOUND_TORCH = TRUE /\ shim = NoShim
    /\ ctor \in { CtorArgs(StrV("1.0"), IMX500_TP_MODEL, sh, b, n, m) :
                    sh \in InputShapes, b \in 1..MaxBatch, n \in 0..MaxIter,
                    m \in 0..MaxInputs }
    /\ self = Construct(ctor)
    /\ folderExists = FALSE /\ files = {}
    /\ environPath = SystemPath
    /\ RunStart
    /\ gens = <<>>

\* A collaborator (the quantization first, the export after it) calls the
\* representative_data_gen it was given.
CallDataGen ==
    /\ Len(gens) < MaxGens
    /\ gens' = Append(gens, run_mct_data_gen(self, gens))
    /\ UNCHANGED <<resolverVars, shimVars, ctor, self, folderExists, files, runVars>>

\* A collaborator asks generator k for its next batch.
GenNext(k) ==
    /\ ~gens[k].done
    /\ gens' = [gens EXCEPT ![k] = gen_next(self, gens[k])]
    /\ UNCHANGED <<resolverVars, shimVars, ctor, self, folderExists, files, runVars>>

NextGen ==
    \/ CallDataGen
    \/ \E k \in 1..Len(gens) : GenNext(k)

SpecGen == InitGen /\ [][NextGen]_vars

(***************************************************************************)
(* Properties of the resolver.                                             *)
(***************************************************************************)
\* What Python prints for each version value of VersionInputs, written out;
\* a left-out argument is the default '1.0'.
Canonical(v) ==
    CASE v = FloatV(1, 0) -> "1.0"
      [] v = FloatV(4, 0) -> "4.0"
      [] v = IntV(1) -> "1"
      [] v = NoneV -> "None"
      [] v = Omitted -> "1.0"
      [] OTHER -> v.s

\* A numeric value and the string it is written as.
NumericLooking == { <<FloatV(1, 0), "1.0">>, <<FloatV(4, 0), "4.0">>, <<IntV(1), "1">> }

CallIds == 1..Len(calls)
DeviceOf(c) == BindDevice(c.device_type)
DeviceRegistered(c) == DeviceOf(c) \in DOMAIN c.before
PairRegistered(c) ==
    /\ DeviceRegistered(c)
    /\ Canonical(c.tpc_version) \in DOMAIN c.before[DeviceOf(c)]
SameOutcome(a, b) == a.kind = b.kind /\ a.tpc = b.tpc

\* C1: a registered device with a version whose canonical string is not
\* registered for it fails with UnknownVersion and yields no descriptor, an
\* explicit None (canonical string 'None') included: there is no fallback.
C1_UnknownVersionNoFallback ==
    \A k \in CallIds :
        (DeviceRegistered(calls[k]) /\ ~PairRegistered(calls[k]))
            => (calls[k].kind = "UnknownVersion" /\ calls[k].tpc = NoneTpc)

C1_Witness ==
    \E k \in CallIds :
        /\ calls[k].tpc_version = NoneV
        /\ calls[k].device_type = "imx500"
        /\ "1.0" \in DOMAIN calls[k].before["imx500"]
        /\ calls[k].kind = "UnknownVersion"

\* C2: a device that is no key of the Registry fails with UnknownDeviceType
\* whatever the version, no dispatcher is invoked, and the caller gets the error.
C2_UnknownDeviceType ==
    \A k \in CallIds :
        ~DeviceRegistered(calls[k])
            => /\ calls[k].kind = "UnknownDeviceType"
               /\ calls[k].tpc = NoneTpc
               /\ calls[k].dispatched = <<>>

C2_Witness ==
    \E k \in CallIds :
        /\ calls[k].device_type = "tflite"
        /\ "tflite" \notin DOMAIN calls[k].before
        /\ calls[k].tpc_version = StrV("1.0")
        /\ calls[k].kind = "UnknownDeviceType"

\* C3: a registered (device, version) pair never raises and returns the
\* non-null output of the one factory registered under the exact canonical string.
C3_RegisteredPairResolves ==
    \A k \in CallIds :
        PairRegistered(calls[k])
            => /\ calls[k].kind = "ok"
               /\ calls[k].tpc # NoneTpc
               /\ calls[k].tpc =
                      [name |-> calls[k].before[DeviceOf(calls[k])][Canonical(calls[k].tpc_version)],
                       device |-> DeviceOf(calls[k]),
                       version |-> Canonical(calls[k].tpc_version)]
               /\ calls[k].dispatched = <<Canonical(calls[k].tpc_version)>>

C3_Witness ==
    \E k \in CallIds :
        /\ calls[k].tpc_version = FloatV(4, 0)
        /\ calls[k].device_type = "imx500"
        /\ calls[k].kind = "ok"
        /\ calls[k].tpc.name = "imx500_v4"

\* C4: whatever calls came before, the Registry is as it was at construction
\* and a call yields the outcome of the first call with the same arguments.
C4_HistoryIndependent ==
    /\ \A k \in CallIds : calls[k].before = calls[1].before
    /\ Len(calls) > 0 => registry = calls[1].before
    /\ \A j \in CallIds, k \in CallIds :
           (j < k /\ calls[j].tpc_version = calls[k].tpc_version
                  /\ calls[j].device_type = calls[k].device_type)
               => SameOutcome(calls[j], calls[k])

C4_Witness ==
    /\ Len(calls) = 3
    /\ calls[1].tpc_version = calls[3].tpc_version
    /\ calls[1].device_type = calls[3].device_type
    /\ calls[1].kind = "ok"
    /\ calls[2].kind = "UnknownVersion"
    /\ calls[3].kind = "ok"

\* C5: a numeric-looking version and its string form resolve identically on
\* every device: equal descriptors, or the same error.
C5_CanonicalizationStable ==
    \A j \in CallIds, k \in CallIds :
        (/\ calls[j].device_type = calls[k].device_type
         /\ \E p \in NumericLooking :
                calls[j].tpc_version = p[1] /\ calls[k].tpc_version = StrV(p[2]))
            => SameOutcome(calls[j], calls[k])

C5_Witness ==
    \E j \in CallIds, k \in CallIds :
        /\ calls[j].device_type = "imx500" /\ calls[k].device_type = "imx500"
        /\ calls[j].tpc_version = FloatV(4, 0) /\ calls[k].tpc_version = StrV("4.0")
        /\ calls[j].kind = "ok" /\ calls[k].kind = "ok"

(***************************************************************************)
(* Properties of the pass-through.                                         *)
(***************************************************************************)
\* C7: get_tpc_model returns the descriptor it was given for every name and
\* never raises; generate_pytorch_tpc, when torch was found, does the same.
C7_PassThrough ==
    (shim.fn = "get_tpc_model" \/ (shim.fn = "generate_pytorch_tpc" /\ FOUND_TORCH))
        => (shim.raised = "" /\ shim.result = shim.tpc)

C7_Witness ==
    /\ shim.fn = "generate_pytorch_tpc"
    /\ FOUND_TORCH
    /\ shim.name = NoneV
    /\ shim.tpc.name = "imx500_v4"
    /\ shim.result = shim.tpc

(***************************************************************************)
(* Properties of run_test.                                                 *)
(***************************************************************************)
Ended == pc = "done"
FailedCheck ==
    \/ (javaCheck.ran /\ javaCheck.returncode # 0)
    \/ (convCheck.ran /\ convCheck.returncode # 0)

\* C6: run_test completes successfully only if the converter exited with
\* code 0 and qmodel.pbtxt was found in save_folder afterwards.
C6_SuccessNeedsArtifact ==
    (Ended /\ runResult = "ok")
        => (converter.ran /\ converter.returncode = 0 /\ artifactSeen = "present")

\* C8 as claimed: the environment checks precede quantization and export, so a
\* failed check ends the run with SystemExit with nothing quantized, nothing
\* exported and no conversion command run.
C8_ChecksBeforeQuantization ==
    FailedCheck
        => (runResult = "SystemExit" /\ ~quantized /\ ~exported /\ ~converter.ran)

\* C8 as amended: the checks (Java first, then the converter) run after
\* quantization and export and before the conversion command; a check that
\* returns non-zero ends the run with SystemExit, the model already quantized
\* and exported, and the conversion command is never run.
C8_FailedCheckIsFatal ==
    /\ FailedCheck
          => (Ended /\ runResult = "SystemExit" /\ quantized /\ exported /\ ~converter.ran)
    /\ javaCheck.ran => (quantized /\ exported)
    /\ convCheck.ran => (javaCheck.ran /\ javaCheck.returncode = 0)
    /\ converter.ran => (convCheck.ran /\ convCheck.returncode = 0)
    /\ (FailedCheck \/ ~convCheck.ran) => environPath \in {SystemPath, NoPath}

C8_Witness ==
    /\ Ended
    /\ javaCheck = Completed(0)
    /\ convCheck = Completed(1)
    /\ runResult = "SystemExit"
    /\ quantized /\ exported /\ ~converter.ran

\* C9 as claimed: once run_test has ended, on every path, save_folder is gone.
C9_FolderRemovedOnEveryPath == Ended => ~folderExists

\* C9 as amended: save_folder is gone once run_test has returned normally, and
\* only then; on every path that ends with an exception the folder remains.
C9_FolderRemovedOnSuccessOnly == Ended => (runResult = "ok" <=> ~folderExists)

C9_Witness ==
    /\ Ended
    /\ runResult = "ok"
    /\ artifactSeen = "present"
    /\ ~folderExists /\ files = {}

(***************************************************************************)
(* Properties of the representative data generator.                        *)
(***************************************************************************)
\* C10: every generator representative_data_gen returns yields exactly
\* num_calibration_iter batches and then stops, each batch num_of_inputs inputs
\* of shape (batch_size,) + input_shape; a later call starts again from the
\* first batch.
C10_GeneratorFiniteRestartable ==
    \A k \in 1..Len(gens) :
        /\ Len(gens[k].yielded) <= ctor.num_calibration_iter
        /\ gens[k].done => Len(gens[k].yielded) = ctor.num_calibration_iter
        /\ \A b \in 1..Len(gens[k].yielded) :
              /\ Len(gens[k].yielded[b]) = ctor.num_of_inputs
              /\ \A x \in 1..Len(gens[k].yielded[b]) :
                    gens[k].yielded[b][x] = <<ctor.batch_size>> \o ctor.input_shape

C10_Witness ==
    /\ Len(gens) = 2
    /\ gens[1].done /\ gens[2].done
    /\ ctor.num_calibration_iter = 2 /\ ctor.num_of_inputs = 2 /\ ctor.batch_size = 2
    /\ Len(gens[2].yielded) = 2
    /\ Len(gens[2].yielded[2]) = 2

====
